---------------------------- MODULE Spec2Model ----------------------------
(***************************************************************************)
(* Drone-operations coordinator: the three in-memory tables held by        *)
(* DataLoader (pilots, drones, missions), the assignment operations of     *)
(* AssignmentTracker / RosterManager / DroneInventory, and the conflict    *)
(* detectors of ConflictDetector.                                          *)
(*                                                                         *)
(* A table is a sequence of rows in DataFrame order.  A comma-encoded      *)
(* column (skills, certifications, required_skills, ...) is the sequence   *)
(* of raw pieces that str.split(',') yields; Strip and Lower model         *)
(* str.strip() and str.lower() on those pieces.  Text built with f-strings *)
(* is built here with \o, so two findings have the same issue exactly when *)
(* the Python strings are equal.                                           *)
(***************************************************************************)
EXTENDS Naturals, Integers, Sequences, FiniteSets, TLC

VARIABLES pilots, drones, missions, response, prev

vars == <<pilots, drones, missions, response, prev>>

---------------------------------------------------------------------------
(* Bounds of the model: the number of rows of each table.                  *)

NumPilots == 2

NumDrones == 2

NumMissions == 2

---------------------------------------------------------------------------
(* Values.                                                                 *)

\* The "no assignment" placeholder of the CSV files (an en dash in the source).
Sentinel == "-"

\* Python's None, for an optional argument that is not passed.
None == "None"

\* Python truthiness of a str-or-None argument: None and '' are falsy.
Truthy(v) == v # None /\ v # ""

PilotStatuses == {"Available", "On Leave", "Assigned", "Unavailable"}

DroneStatuses == {"Available", "Deployed", "Maintenance"}

\* str.strip() on the pieces of a comma-encoded column.
Strip(t) ==
    CASE t = " Survey" -> "Survey"
      [] t = " Thermal" -> "Thermal"
      [] t = " Night Ops" -> "Night Ops"
      [] t = " DGCA" -> "DGCA"
      [] t = "Mapping " -> "Mapping"
      [] OTHER -> t

\* str.lower() on a stripped piece.
Lower(t) ==
    CASE t = "Mapping" -> "mapping"
      [] t = "Survey" -> "survey"
      [] t = "Inspection" -> "inspection"
      [] t = "Thermal" -> "thermal"
      [] t = "DGCA" -> "dgca"
      [] t = "Night Ops" -> "night ops"
      [] OTHER -> t

\* [s.strip() for s in str(field).split(',')]
SplitStrip(field) == [i \in 1..Len(field) |-> Strip(field[i])]

\* [s.strip().lower() for s in str(field).split(',')]
SplitStripLower(field) == [i \in 1..Len(field) |-> Lower(Strip(field[i]))]

\* x in list
InList(x, list) == \E i \in 1..Len(list) : list[i] = x

\* sep.join(list)
RECURSIVE Join(_, _)
Join(list, sep) ==
    IF Len(list) = 0 THEN ""
    ELSE IF Len(list) = 1 THEN list[1]
    ELSE list[1] \o sep \o Join(Tail(list), sep)

\* [x for x in required if x not in have]
Missing(required, have) == SelectSeq(required, LAMBDA x : ~InList(x, have))

\* sum(1 for x in required if x in have)
CountIn(required, have) == Len(SelectSeq(required, LAMBDA x : InList(x, have)))

\* Concatenation of a sequence of sequences.
RECURSIVE Flatten(_)
Flatten(ss) == IF Len(ss) = 0 THEN <<>> ELSE Head(ss) \o Flatten(Tail(ss))

---------------------------------------------------------------------------
(* The rows the tables are loaded with.  Ids are unique and fixed by the   *)
(* row's position; the other static columns come from a small catalogue.   *)

PilotIdOf == <<"P001", "P002", "P003", "P004">>

DroneIdOf == <<"D001", "D002", "D003", "D004">>

MissionIdOf == <<"PRJ001", "PRJ002", "PRJ003", "PRJ004">>

PilotIds == {PilotIdOf[i] : i \in 1..NumPilots}

DroneIds == {DroneIdOf[i] : i \in 1..NumDrones}

MissionIds == {MissionIdOf[i] : i \in 1..NumMissions}

\* Ids that no row carries.
UnknownPilot == "P999"

UnknownDrone == "D999"

UnknownMission == "PRJ999"

PilotNames == {"Arjun", "Neha"}

DroneModels == {"DJI M300", "Mavic 3"}

\* The available_from date every loaded pilot row carries.
LoadedDate == "2026-02-01"

\* The dates the "Available From" input of the leave form is given.
LeaveDates == {"2026-02-10"}

PilotSkillsOf == << <<"Mapping", " Survey">>, <<"Inspection">>,
                    <<"Mapping ">>, <<"Survey", " Thermal">> >>

PilotCertsOf == << <<"DGCA", " Night Ops">>, <<"DGCA">>,
                   <<"Night Ops">>, <<"DGCA">> >>

PilotLocationOf == <<"Bangalore", "Mumbai", "Bangalore", "Mumbai">>

DroneCapsOf == << <<"RGB", " LiDAR">>, <<"Thermal">>, <<"RGB">>, <<"LiDAR">> >>

DroneLocationOf == <<"Bangalore", "Mumbai", "Mumbai", "Bangalore">>

MissionRowOf ==
    << [project_id |-> "PRJ001", client |-> "Client A", location |-> "Bangalore",
        required_skills |-> <<"Mapping">>, required_certs |-> <<"DGCA">>,
        priority |-> "Urgent"],
       [project_id |-> "PRJ002", client |-> "Client B", location |-> "Mumbai",
        required_skills |-> <<"Inspection", " Thermal">>,
        required_certs |-> <<"DGCA", " Night Ops">>, priority |-> "Medium"],
       [project_id |-> "PRJ003", client |-> "Client C", location |-> "Bangalore",
        required_skills |-> <<"Survey">>, required_certs |-> <<"Night Ops">>,
        priority |-> "High"],
       [project_id |-> "PRJ004", client |-> "Client D", location |-> "Mumbai",
        required_skills |-> <<"Thermal">>, required_certs |-> <<"DGCA">>,
        priority |-> "Low"] >>

\* What a current_assignment cell of a loaded table may hold.
LoadedAssignments == {Sentinel, UnknownMission} \cup MissionIds

PilotRow(i, name, status, assignment) ==
    [pilot_id |-> PilotIdOf[i], name |-> name, skills |-> PilotSkillsOf[i],
     certifications |-> PilotCertsOf[i], location |-> PilotLocationOf[i],
     status |-> status, current_assignment |-> assignment,
     available_from |-> LoadedDate]

DroneRow(i, model, status, assignment) ==
    [drone_id |-> DroneIdOf[i], model |-> model, capabilities |-> DroneCapsOf[i],
     status |-> status, location |-> DroneLocationOf[i],
     current_assignment |-> assignment]

\* The <<status, current_assignment>> pairs of a pilot row in pilot_roster.csv.
\* An Available pilot has no assignment and an Assigned one has one; a pilot On
\* Leave or Unavailable may carry any assignment (the conflicts to detect).
LoadedPilotCells ==
    {c \in PilotStatuses \X LoadedAssignments :
        /\ c[1] = "Available" => c[2] = Sentinel
        /\ c[1] = "Assigned" => c[2] # Sentinel}

\* The <<status, current_assignment>> pairs of a drone row in drone_fleet.csv.
LoadedDroneCells ==
    {c \in DroneStatuses \X LoadedAssignments :
        /\ c[1] = "Available" => c[2] = Sentinel
        /\ c[1] = "Deployed" => c[2] # Sentinel}

PilotNameOf == <<"Arjun", "Neha", "Rohit", "Sneha">>

DroneModelOf == <<"DJI M300", "Mavic 3", "DJI M300", "Autel Evo">>

\* One name per row, as in the sample roster.
RosterNames == {[i \in 1..NumPilots |-> PilotNameOf[i]]}

\* Any names.  Names are only ever compared for equality, so the first row's
\* name is fixed.
AnyNames == {f \in [1..NumPilots -> PilotNames] : f[1] = "Arjun"}

RosterModels == {[i \in 1..NumDrones |-> DroneModelOf[i]]}

\* Any models (the first row's model is fixed, as for names).
AnyModels == {f \in [1..NumDrones -> DroneModels] : f[1] = "DJI M300"}

\* The pilot tables with the given names and <<status, assignment>> cells.
PilotTablesOver(names, cells) ==
    {[i \in 1..NumPilots |-> PilotRow(i, n[i], c[i][1], c[i][2])] :
        n \in names, c \in [1..NumPilots -> cells]}

\* The drone tables with the given models and <<status, assignment>> cells.
DroneTablesOver(models, cells) ==
    {[i \in 1..NumDrones |-> DroneRow(i, m[i], c[i][1], c[i][2])] :
        m \in models, c \in [1..NumDrones -> cells]}

MissionTable == [i \in 1..NumMissions |-> MissionRowOf[i]]

\* No call has returned yet.
NoResponse == [op |-> "none"]

NoCall == [op |-> "none"]

---------------------------------------------------------------------------
(* DataLoader: lookups and the two update entry points.                    *)

\* Positions of the rows of table t whose column col equals id, in order.
RowsWith(t, col, id) == {i \in 1..Len(t) : t[i][col] = id}

MinOf(S) == CHOOSE m \in S : \A n \in S : m <= n

\* get_pilot_by_id(pilot_id) is not None
HasPilot(ps, pilot_id) == RowsWith(ps, "pilot_id", pilot_id) # {}

\* get_pilot_by_id: result.iloc[0]
get_pilot_by_id(ps, pilot_id) == ps[MinOf(RowsWith(ps, "pilot_id", pilot_id))]

HasDrone(ds, drone_id) == RowsWith(ds, "drone_id", drone_id) # {}

get_drone_by_id(ds, drone_id) == ds[MinOf(RowsWith(ds, "drone_id", drone_id))]

HasMission(ms, project_id) == RowsWith(ms, "project_id", project_id) # {}

get_mission_by_id(ms, project_id) ==
    ms[MinOf(RowsWith(ms, "project_id", project_id))]

\* update_pilot_status: the table after the call (the call returns
\* HasPilot(ps, pilot_id)).  Only the first matching row is written; the
\* assignment and the date are written only when the argument is truthy.
update_pilot_status(ps, pilot_id, new_status, current_assignment, available_from) ==
    IF ~HasPilot(ps, pilot_id) THEN ps
    ELSE LET k == MinOf(RowsWith(ps, "pilot_id", pilot_id))
             r1 == [ps[k] EXCEPT !.status = new_status]
             r2 == IF Truthy(current_assignment)
                   THEN [r1 EXCEPT !.current_assignment = current_assignment]
                   ELSE r1
             r3 == IF Truthy(available_from)
                   THEN [r2 EXCEPT !.available_from = available_from]
                   ELSE r2
         IN  [ps EXCEPT ![k] = r3]

\* update_drone_status writing the assignment into the location column.
update_drone_status_wrong_column(ds, drone_id, new_status, current_assignment) ==
    IF ~HasDrone(ds, drone_id) THEN ds
    ELSE LET k == MinOf(RowsWith(ds, "drone_id", drone_id))
             r1 == [ds[k] EXCEPT !.status = new_status]
             r2 == IF Truthy(current_assignment)
                   THEN [r1 EXCEPT !.location = current_assignment]
                   ELSE r1
         IN  [ds EXCEPT ![k] = r2]

\* update_drone_status: the table after the call.
update_drone_status(ds, drone_id, new_status, current_assignment) ==
    IF ~HasDrone(ds, drone_id) THEN ds
    ELSE LET k == MinOf(RowsWith(ds, "drone_id", drone_id))
             r1 == [ds[k] EXCEPT !.status = new_status]
             r2 == IF Truthy(current_assignment)
                   THEN [r1 EXCEPT !.current_assignment = current_assignment]
                   ELSE r1
         IN  [ds EXCEPT ![k] = r2]

---------------------------------------------------------------------------
(* ConflictDetector: the detectors.  Each returns the list of findings in  *)
(* the order the loops append them.                                        *)

OnLeaveFinding(p) ==
    [type |-> "Pilot On Leave but Assigned", severity |-> "CRITICAL",
     pilot_id |-> p.pilot_id, pilot_name |-> p.name, pilot_status |-> p.status,
     assignment |-> p.current_assignment,
     issue |-> p.name \o " is On Leave but assigned to " \o p.current_assignment]

UnavailableFinding(p) ==
    [type |-> "Pilot Unavailable but Assigned", severity |-> "HIGH",
     pilot_id |-> p.pilot_id, pilot_name |-> p.name, pilot_status |-> p.status,
     assignment |-> p.current_assignment,
     issue |-> p.name \o " is Unavailable but assigned to " \o p.current_assignment]

DoubleBookingOfRow(p) ==
    (IF p.status = "On Leave" /\ p.current_assignment # Sentinel
     THEN <<OnLeaveFinding(p)>> ELSE <<>>)
    \o
    (IF p.status = "Unavailable" /\ p.current_assignment # Sentinel
     THEN <<UnavailableFinding(p)>> ELSE <<>>)

detect_pilot_double_booking(ps, ms) ==
    Flatten([i \in 1..Len(ps) |-> DoubleBookingOfRow(ps[i])])

SkillMismatchOfRow(p, ms) ==
    IF p.current_assignment = Sentinel THEN <<>>
    ELSE IF ~HasMission(ms, p.current_assignment) THEN <<>>
    ELSE LET mission == get_mission_by_id(ms, p.current_assignment)
             pilot_skills == SplitStrip(p.skills)
             required_skills == SplitStrip(mission.required_skills)
             missing_skills == Missing(required_skills, pilot_skills)
         IN  IF Len(missing_skills) > 0
             THEN << [type |-> "Skill Mismatch", severity |-> "MEDIUM",
                      pilot_id |-> p.pilot_id, pilot_name |-> p.name,
                      assignment |-> mission.project_id,
                      missing_skills |-> missing_skills,
                      issue |-> p.name \o " lacks skills: "
                                \o Join(missing_skills, ", ")] >>
             ELSE <<>>

detect_skill_mismatch(ps, ms) ==
    Flatten([i \in 1..Len(ps) |-> SkillMismatchOfRow(ps[i], ms)])

CertMismatchOfRow(p, ms) ==
    IF p.current_assignment = Sentinel THEN <<>>
    ELSE IF ~HasMission(ms, p.current_assignment) THEN <<>>
    ELSE LET mission == get_mission_by_id(ms, p.current_assignment)
             pilot_certs == SplitStrip(p.certifications)
             required_certs == SplitStrip(mission.required_certs)
             missing_certs == Missing(required_certs, pilot_certs)
         IN  IF Len(missing_certs) > 0
             THEN << [type |-> "Certification Mismatch", severity |-> "HIGH",
                      pilot_id |-> p.pilot_id, pilot_name |-> p.name,
                      assignment |-> mission.project_id,
                      missing_certs |-> missing_certs,
                      issue |-> p.name \o " lacks certifications: "
                                \o Join(missing_certs, ", ")] >>
             ELSE <<>>

detect_certification_mismatch(ps, ms) ==
    Flatten([i \in 1..Len(ps) |-> CertMismatchOfRow(ps[i], ms)])

PilotLocationOfRow(p, ms) ==
    IF p.current_assignment = Sentinel THEN <<>>
    ELSE IF ~HasMission(ms, p.current_assignment) THEN <<>>
    ELSE LET mission == get_mission_by_id(ms, p.current_assignment)
         IN  IF p.location # mission.location
             THEN << [type |-> "Pilot Location Mismatch", severity |-> "MEDIUM",
                      pilot_id |-> p.pilot_id, pilot_name |-> p.name,
                      pilot_location |-> p.location,
                      mission_location |-> mission.location,
                      issue |-> p.name \o " is in " \o p.location
                                \o " but assigned to mission in "
                                \o mission.location] >>
             ELSE <<>>

\* DroneLocationOfRow reporting a drone whose mission is not in the table.
DroneLocationOfRow_MissingReported(d, ms) ==
    IF d.current_assignment = Sentinel THEN <<>>
    ELSE LET mission_location ==
                 IF HasMission(ms, d.current_assignment)
                 THEN get_mission_by_id(ms, d.current_assignment).location
                 ELSE None
         IN  IF d.location # mission_location
             THEN << [type |-> "Drone Location Mismatch", severity |-> "MEDIUM",
                      drone_id |-> d.drone_id, drone_model |-> d.model,
                      drone_location |-> d.location,
                      mission_location |-> mission_location,
                      issue |-> d.model \o " is in " \o d.location
                                \o " but assigned to mission in "
                                \o mission_location] >>
             ELSE <<>>

DroneLocationOfRow(d, ms) ==
    IF d.current_assignment = Sentinel THEN <<>>
    ELSE IF ~HasMission(ms, d.current_assignment) THEN <<>>
    ELSE LET mission == get_mission_by_id(ms, d.current_assignment)
         IN  IF d.location # mission.location
             THEN << [type |-> "Drone Location Mismatch", severity |-> "MEDIUM",
                      drone_id |-> d.drone_id, drone_model |-> d.model,
                      drone_location |-> d.location,
                      mission_location |-> mission.location,
                      issue |-> d.model \o " is in " \o d.location
                                \o " but assigned to mission in "
                                \o mission.location] >>
             ELSE <<>>

detect_location_mismatch(ps, ds, ms) ==
    Flatten([i \in 1..Len(ps) |-> PilotLocationOfRow(ps[i], ms)])
    \o Flatten([i \in 1..Len(ds) |-> DroneLocationOfRow(ds[i], ms)])

\* MaintenanceOfRow without the check of the assignment.
MaintenanceOfRow_AnyAssignment(d) ==
    IF d.status = "Maintenance"
    THEN << [type |-> "Maintenance Conflict", severity |-> "CRITICAL",
             drone_id |-> d.drone_id, drone_model |-> d.model,
             status |-> d.status, assignment |-> d.current_assignment,
             issue |-> d.model \o " is in Maintenance but assigned to "
                       \o d.current_assignment] >>
    ELSE <<>>

MaintenanceOfRow(d) ==
    IF d.status = "Maintenance" /\ d.current_assignment # Sentinel
    THEN << [type |-> "Maintenance Conflict", severity |-> "CRITICAL",
             drone_id |-> d.drone_id, drone_model |-> d.model,
             status |-> d.status, assignment |-> d.current_assignment,
             issue |-> d.model \o " is in Maintenance but assigned to "
                       \o d.current_assignment] >>
    ELSE <<>>

detect_maintenance_conflict(ds) ==
    Flatten([i \in 1..Len(ds) |-> MaintenanceOfRow(ds[i])])

UrgentOfPilot(p, mission) ==
    IF p.current_assignment = mission.project_id /\ p.status = "On Leave"
    THEN << [type |-> "Urgent Mission - Pilot On Leave", severity |-> "CRITICAL",
             pilot_id |-> p.pilot_id, pilot_name |-> p.name,
             pilot_status |-> p.status, assignment |-> mission.project_id,
             priority |-> mission.priority,
             issue |-> "URGENT: " \o p.name \o " is On Leave but assigned to "
                       \o mission.priority \o " priority mission "
                       \o mission.project_id] >>
    ELSE <<>>

UrgentOfMission(mission, ps) ==
    IF mission.priority \in {"Urgent", "High"}
    THEN Flatten([i \in 1..Len(ps) |-> UrgentOfPilot(ps[i], mission)])
    ELSE <<>>

detect_urgent_mission_conflicts(ps, ms) ==
    Flatten([j \in 1..Len(ms) |-> UrgentOfMission(ms[j], ps)])

\* all_conflicts after the six extend calls.
AllDetected(ps, ds, ms) ==
    detect_pilot_double_booking(ps, ms)
    \o detect_skill_mismatch(ps, ms)
    \o detect_certification_mismatch(ps, ms)
    \o detect_location_mismatch(ps, ds, ms)
    \o detect_maintenance_conflict(ds)
    \o detect_urgent_mission_conflicts(ps, ms)

\* "Remove duplicates based on issue": the first finding of each issue text.
RECURSIVE UniqueFrom(_, _)
UniqueFrom(list, seen_issues) ==
    IF Len(list) = 0 THEN <<>>
    ELSE IF Head(list).issue \in seen_issues
         THEN UniqueFrom(Tail(list), seen_issues)
         ELSE <<Head(list)>> \o UniqueFrom(Tail(list), seen_issues \cup {Head(list).issue})

\* The dedup keeping the last finding of each issue text.
RECURSIVE UniqueByIssue_LastWins(_)
UniqueByIssue_LastWins(list) ==
    IF Len(list) = 0 THEN <<>>
    ELSE IF \E k \in 2..Len(list) : list[k].issue = Head(list).issue
         THEN UniqueByIssue_LastWins(Tail(list))
         ELSE <<Head(list)>> \o UniqueByIssue_LastWins(Tail(list))

UniqueByIssue(list) == UniqueFrom(list, {})

\* severity_order.get(x['severity'], 4)
SeverityRank(sev) ==
    CASE sev = "CRITICAL" -> 0
      [] sev = "HIGH" -> 1
      [] sev = "MEDIUM" -> 2
      [] sev = "LOW" -> 3
      [] OTHER -> 4

\* One step of a stable sort: x goes behind every element whose rank is not larger.
RECURSIVE InsertBySeverity(_, _)
InsertBySeverity(sorted, x) ==
    IF Len(sorted) = 0 THEN <<x>>
    ELSE IF SeverityRank(Head(sorted).severity) <= SeverityRank(x.severity)
         THEN <<Head(sorted)>> \o InsertBySeverity(Tail(sorted), x)
         ELSE <<x>> \o sorted

\* list.sort(key=severity rank): stable.
RECURSIVE SortBySeverity(_)
SortBySeverity(list) ==
    IF Len(list) = 0 THEN <<>>
    ELSE InsertBySeverity(SortBySeverity(SubSeq(list, 1, Len(list) - 1)),
                          list[Len(list)])

\* get_all_conflicts without the sort.
get_all_conflicts_unsorted(ps, ds, ms) == UniqueByIssue(AllDetected(ps, ds, ms))

get_all_conflicts(ps, ds, ms) ==
    SortBySeverity(UniqueByIssue(AllDetected(ps, ds, ms)))

CountSeverity(list, sev) == Len(SelectSeq(list, LAMBDA c : c.severity = sev))

\* get_conflicts_summary counting the findings before the deduplication.
get_conflicts_summary_all_detected(ps, ds, ms) ==
    LET detected == AllDetected(ps, ds, ms)
    IN  [total_conflicts |-> Len(detected),
         critical |-> CountSeverity(detected, "CRITICAL"),
         high |-> CountSeverity(detected, "HIGH"),
         medium |-> CountSeverity(detected, "MEDIUM"),
         conflicts |-> get_all_conflicts(ps, ds, ms)]

get_conflicts_summary(ps, ds, ms) ==
    LET conflicts == get_all_conflicts(ps, ds, ms)
    IN  [total_conflicts |-> Len(conflicts),
         critical |-> CountSeverity(conflicts, "CRITICAL"),
         high |-> CountSeverity(conflicts, "HIGH"),
         medium |-> CountSeverity(conflicts, "MEDIUM"),
         conflicts |-> conflicts]

---------------------------------------------------------------------------
(* The queries of ConflictDetector as calls: the returned value is kept in *)
(* response; the tables are only read.                                     *)

GetAllConflicts ==
    /\ response' = [op |-> "get_all_conflicts",
                    result |-> get_all_conflicts(pilots, drones, missions)]
    /\ UNCHANGED <<pilots, drones, missions>>

GetConflictsSummary ==
    /\ response' = [op |-> "get_conflicts_summary",
                    result |-> get_conflicts_summary(pilots, drones, missions)]
    /\ UNCHANGED <<pilots, drones, missions>>

\* Any loaded tables; the detectors are then run on them.
InitDetect ==
    /\ pilots \in PilotTablesOver(AnyNames, LoadedPilotCells)
    /\ drones \in DroneTablesOver(AnyModels, LoadedDroneCells)
    /\ missions = MissionTable
    /\ response = NoResponse
    /\ prev = NoCall

NextDetect ==
    \/ GetAllConflicts /\ UNCHANGED prev
    \/ GetConflictsSummary /\ UNCHANGED prev

SpecDetect == InitDetect /\ [][NextDetect]_vars

---------------------------------------------------------------------------
(* Properties of the detectors, stated on the value a query returned.      *)

\* The list of findings the last query returned (its 'conflicts' for a summary).
ReturnedConflicts ==
    IF response.op = "get_all_conflicts" THEN response.result
    ELSE response.result.conflicts

ConflictsReturned == response.op \in {"get_all_conflicts", "get_conflicts_summary"}

\* Number of findings of the given type in list that carry the given id.
FindingsFor(list, type, idcol, id) ==
    Cardinality({k \in 1..Len(list) : list[k].type = type /\ list[k][idcol] = id})

BookedOff(p) ==
    p.status \in {"On Leave", "Unavailable"} /\ p.current_assignment # Sentinel

BookedOffType(p) ==
    IF p.status = "On Leave" THEN "Pilot On Leave but Assigned"
    ELSE "Pilot Unavailable but Assigned"

\* C1: every pilot that is On Leave or Unavailable with a non-sentinel
\* assignment has exactly one finding of the matching type carrying its
\* pilot_id in get_all_conflicts(): deduplication drops no distinct pilot.
C1_OneFindingPerBookedOffPilot ==
    response.op = "get_all_conflicts" =>
        \A i \in 1..Len(pilots) :
            BookedOff(pilots[i]) =>
                FindingsFor(response.result, BookedOffType(pilots[i]),
                            "pilot_id", pilots[i].pilot_id) = 1

\* C2: the list returned by get_all_conflicts() is non-decreasing in severity
\* rank for every adjacent pair of findings.
C2_SeverityNonDecreasing ==
    response.op = "get_all_conflicts" =>
        \A k \in 1..(Len(response.result) - 1) :
            SeverityRank(response.result[k].severity)
                <= SeverityRank(response.result[k + 1].severity)

\* A returned list with a CRITICAL, a HIGH and a MEDIUM finding whose
\* detector order was not already sorted.
C2_Witness ==
    /\ response.op = "get_all_conflicts"
    /\ {response.result[k].severity : k \in 1..Len(response.result)}
           = {"CRITICAL", "HIGH", "MEDIUM"}
    /\ LET raw == UniqueByIssue(AllDetected(pilots, drones, missions))
       IN  \E k \in 1..(Len(raw) - 1) :
               SeverityRank(raw[k].severity) > SeverityRank(raw[k + 1].severity)

UrgentlyBooked(p) ==
    /\ p.status = "On Leave"
    /\ HasMission(missions, p.current_assignment)
    /\ get_mission_by_id(missions, p.current_assignment).priority \in {"High", "Urgent"}

\* C6: for every On Leave pilot assigned to an existing High or Urgent
\* mission, get_all_conflicts() holds a 'Pilot On Leave but Assigned' and an
\* 'Urgent Mission - Pilot On Leave' finding for that pilot, both CRITICAL,
\* with different issue text, and so at least two findings.
C6_BothFindingsForUrgentPilot ==
    response.op = "get_all_conflicts" =>
        \A i \in 1..Len(pilots) :
            UrgentlyBooked(pilots[i]) =>
                /\ Len(response.result) >= 2
                /\ \E a, b \in 1..Len(response.result) :
                       /\ response.result[a].type = "Pilot On Leave but Assigned"
                       /\ response.result[a].pilot_id = pilots[i].pilot_id
                       /\ response.result[a].severity = "CRITICAL"
                       /\ response.result[b].type = "Urgent Mission - Pilot On Leave"
                       /\ response.result[b].pilot_id = pilots[i].pilot_id
                       /\ response.result[b].severity = "CRITICAL"
                       /\ response.result[a].issue # response.result[b].issue

\* C7: every drone in Maintenance with a non-sentinel assignment has exactly
\* one 'Maintenance Conflict' finding (CRITICAL) carrying its drone_id in
\* get_all_conflicts(), whatever the other rows are.
C7_OneMaintenanceFindingPerDrone ==
    response.op = "get_all_conflicts" =>
        \A i \in 1..Len(drones) :
            (drones[i].status = "Maintenance" /\ drones[i].current_assignment # Sentinel)
            => /\ FindingsFor(response.result, "Maintenance Conflict",
                              "drone_id", drones[i].drone_id) = 1
               /\ \A k \in 1..Len(response.result) :
                      (/\ response.result[k].type = "Maintenance Conflict"
                       /\ response.result[k].drone_id = drones[i].drone_id)
                      => response.result[k].severity = "CRITICAL"

\* as sets: the stripped pieces of a comma-encoded column
PieceSet(field) == {Strip(field[i]) : i \in 1..Len(field)}

\* The trigger conditions of the eight rules of the conflict engine, read off
\* the tables.
PilotTriggers(p) ==
    \/ p.status = "On Leave" /\ p.current_assignment # Sentinel
    \/ p.status = "Unavailable" /\ p.current_assignment # Sentinel
    \/ \E j \in 1..Len(missions) :
           /\ missions[j].project_id = p.current_assignment
           /\ p.current_assignment # Sentinel
           /\ \/ ~(PieceSet(missions[j].required_skills) \subseteq PieceSet(p.skills))
              \/ ~(PieceSet(missions[j].required_certs) \subseteq PieceSet(p.certifications))
              \/ p.location # missions[j].location
              \/ p.status = "On Leave" /\ missions[j].priority \in {"High", "Urgent"}

DroneTriggers(d) ==
    \/ d.status = "Maintenance" /\ d.current_assignment # Sentinel
    \/ \E j \in 1..Len(missions) :
           /\ missions[j].project_id = d.current_assignment
           /\ d.current_assignment # Sentinel
           /\ d.location # missions[j].location

NoTrigger ==
    /\ \A i \in 1..Len(pilots) : ~PilotTriggers(pilots[i])
    /\ \A i \in 1..Len(drones) : ~DroneTriggers(drones[i])

\* C8: when no row satisfies the trigger condition of any detector,
\* get_all_conflicts() returns the empty list and get_conflicts_summary()
\* reports total_conflicts = critical = high = medium = 0.
C8_NoTriggerNoConflicts ==
    NoTrigger =>
        /\ response.op = "get_all_conflicts" => response.result = <<>>
        /\ response.op = "get_conflicts_summary" =>
               /\ response.result.total_conflicts = 0
               /\ response.result.critical = 0
               /\ response.result.high = 0
               /\ response.result.medium = 0
               /\ response.result.conflicts = <<>>

\* A summary returned for tables without any trigger in which a pilot and a
\* drone are on a mission and a pilot is On Leave.
C8_Witness ==
    /\ NoTrigger
    /\ response.op = "get_conflicts_summary"
    /\ \E i \in 1..Len(pilots) : pilots[i].current_assignment \in MissionIds
    /\ \E i \in 1..Len(pilots) : pilots[i].status = "On Leave"
    /\ \E i \in 1..Len(drones) : drones[i].current_assignment \in MissionIds

---------------------------------------------------------------------------
(* RosterManager and DroneInventory: the status transitions.  Each operator *)
(* yields the table after the call and the dict the call returns.           *)

\* RosterManager.update_pilot_assignment(pilot_id, project_id, status)
update_pilot_assignment(ps, pilot_id, project_id, status) ==
    [pilots |-> update_pilot_status(ps, pilot_id, status, project_id, None),
     result |-> IF HasPilot(ps, pilot_id)
                THEN [success |-> TRUE,
                      message |-> "Pilot " \o pilot_id \o " assigned to " \o project_id]
                ELSE [success |-> FALSE,
                      message |-> "Pilot " \o pilot_id \o " not found"]]

\* RosterManager.mark_pilot_on_leave(pilot_id, available_from_date)
\* mark_pilot_on_leave that leaves the assignment argument out.
mark_pilot_on_leave_keep_assignment(ps, pilot_id, available_from_date) ==
    [pilots |-> update_pilot_status(ps, pilot_id, "On Leave", None,
                                    available_from_date),
     result |-> IF HasPilot(ps, pilot_id)
                THEN [success |-> TRUE,
                      message |-> "Pilot " \o pilot_id \o " marked on leave"]
                ELSE [success |-> FALSE,
                      message |-> "Pilot " \o pilot_id \o " not found"]]

mark_pilot_on_leave(ps, pilot_id, available_from_date) ==
    [pilots |-> update_pilot_status(ps, pilot_id, "On Leave", Sentinel,
                                    available_from_date),
     result |-> IF HasPilot(ps, pilot_id)
                THEN [success |-> TRUE,
                      message |-> "Pilot " \o pilot_id \o " marked on leave"]
                ELSE [success |-> FALSE,
                      message |-> "Pilot " \o pilot_id \o " not found"]]

\* mark_pilot_available that leaves the assignment argument out.
mark_pilot_available_keep_assignment(ps, pilot_id) ==
    [pilots |-> update_pilot_status(ps, pilot_id, "Available", None, None),
     result |-> IF HasPilot(ps, pilot_id)
                THEN [success |-> TRUE,
                      message |-> "Pilot " \o pilot_id \o " marked available"]
                ELSE [success |-> FALSE,
                      message |-> "Pilot " \o pilot_id \o " not found"]]

\* RosterManager.mark_pilot_available(pilot_id)
mark_pilot_available(ps, pilot_id) ==
    [pilots |-> update_pilot_status(ps, pilot_id, "Available", Sentinel, None),
     result |-> IF HasPilot(ps, pilot_id)
                THEN [success |-> TRUE,
                      message |-> "Pilot " \o pilot_id \o " marked available"]
                ELSE [success |-> FALSE,
                      message |-> "Pilot " \o pilot_id \o " not found"]]

\* DroneInventory.assign_drone(drone_id, project_id)
assign_drone(ds, drone_id, project_id) ==
    [drones |-> update_drone_status(ds, drone_id, "Deployed", project_id),
     result |-> IF HasDrone(ds, drone_id)
                THEN [success |-> TRUE,
                      message |-> "Drone " \o drone_id \o " assigned to " \o project_id]
                ELSE [success |-> FALSE,
                      message |-> "Drone " \o drone_id \o " not found"]]

\* mark_drone_available that leaves the assignment argument out.
mark_drone_available_keep_assignment(ds, drone_id) ==
    [drones |-> update_drone_status(ds, drone_id, "Available", None),
     result |-> IF HasDrone(ds, drone_id)
                THEN [success |-> TRUE,
                      message |-> "Drone " \o drone_id \o " marked available"]
                ELSE [success |-> FALSE,
                      message |-> "Drone " \o drone_id \o " not found"]]

\* DroneInventory.mark_drone_available(drone_id)
mark_drone_available(ds, drone_id) ==
    [drones |-> update_drone_status(ds, drone_id, "Available", Sentinel),
     result |-> IF HasDrone(ds, drone_id)
                THEN [success |-> TRUE,
                      message |-> "Drone " \o drone_id \o " marked available"]
                ELSE [success |-> FALSE,
                      message |-> "Drone " \o drone_id \o " not found"]]

\* DroneInventory.mark_drone_maintenance(drone_id)
mark_drone_maintenance(ds, drone_id) ==
    [drones |-> update_drone_status(ds, drone_id, "Maintenance", Sentinel),
     result |-> IF HasDrone(ds, drone_id)
                THEN [success |-> TRUE,
                      message |-> "Drone " \o drone_id \o " marked for maintenance"]
                ELSE [success |-> FALSE,
                      message |-> "Drone " \o drone_id \o " not found"]]

---------------------------------------------------------------------------
(* AssignmentTracker.                                                      *)

\* assign_pilot_to_mission without the check of the pilot's status.
assign_pilot_to_mission_unchecked(ps, ms, pilot_id, project_id) ==
    IF ~HasPilot(ps, pilot_id) \/ ~HasMission(ms, project_id)
    THEN [pilots |-> ps,
          result |-> [success |-> FALSE, message |-> "Pilot or Mission not found"]]
    ELSE update_pilot_assignment(ps, pilot_id, project_id, "Assigned")

assign_pilot_to_mission(ps, ms, pilot_id, project_id) ==
    IF ~HasPilot(ps, pilot_id) \/ ~HasMission(ms, project_id)
    THEN [pilots |-> ps,
          result |-> [success |-> FALSE, message |-> "Pilot or Mission not found"]]
    ELSE IF get_pilot_by_id(ps, pilot_id).status # "Available"
    THEN [pilots |-> ps,
          result |-> [success |-> FALSE,
                      message |-> "Pilot " \o pilot_id \o " is "
                                  \o get_pilot_by_id(ps, pilot_id).status]]
    ELSE update_pilot_assignment(ps, pilot_id, project_id, "Assigned")

\* assign_drone_to_mission that turns away only drones in Maintenance.
assign_drone_to_mission_deployed_too(ds, ms, drone_id, project_id) ==
    IF ~HasDrone(ds, drone_id) \/ ~HasMission(ms, project_id)
    THEN [drones |-> ds,
          result |-> [success |-> FALSE, message |-> "Drone or Mission not found"]]
    ELSE IF get_drone_by_id(ds, drone_id).status = "Maintenance"
    THEN [drones |-> ds,
          result |-> [success |-> FALSE,
                      message |-> "Drone " \o drone_id \o " is "
                                  \o get_drone_by_id(ds, drone_id).status]]
    ELSE assign_drone(ds, drone_id, project_id)

assign_drone_to_mission(ds, ms, drone_id, project_id) ==
    IF ~HasDrone(ds, drone_id) \/ ~HasMission(ms, project_id)
    THEN [drones |-> ds,
          result |-> [success |-> FALSE, message |-> "Drone or Mission not found"]]
    ELSE IF get_drone_by_id(ds, drone_id).status # "Available"
    THEN [drones |-> ds,
          result |-> [success |-> FALSE,
                      message |-> "Drone " \o drone_id \o " is "
                                  \o get_drone_by_id(ds, drone_id).status]]
    ELSE assign_drone(ds, drone_id, project_id)

\* reassign_pilot looking the mission up only after the write.
reassign_pilot_late_lookup(ps, ms, pilot_id, new_project_id) ==
    IF ~HasPilot(ps, pilot_id)
    THEN [pilots |-> ps,
          result |-> [success |-> FALSE, message |-> "Pilot or Mission not found"]]
    ELSE LET out == update_pilot_assignment(ps, pilot_id, new_project_id, "Assigned")
         IN  IF ~HasMission(ms, new_project_id)
             THEN [pilots |-> out.pilots,
                   result |-> [success |-> FALSE,
                               message |-> "Pilot or Mission not found"]]
             ELSE out

\* reassign_pilot reading old_assignment only after the write.
reassign_pilot_old_after_write(ps, ms, pilot_id, new_project_id) ==
    IF ~HasPilot(ps, pilot_id) \/ ~HasMission(ms, new_project_id)
    THEN [pilots |-> ps,
          result |-> [success |-> FALSE, message |-> "Pilot or Mission not found"]]
    ELSE LET out == update_pilot_assignment(ps, pilot_id, new_project_id, "Assigned")
             old_assignment == get_pilot_by_id(out.pilots, pilot_id).current_assignment
         IN  [pilots |-> out.pilots,
              result |-> [success |-> TRUE,
                          message |-> "Pilot reassigned from " \o old_assignment
                                      \o " to " \o new_project_id,
                          old_assignment |-> old_assignment,
                          new_assignment |-> new_project_id]]

reassign_pilot(ps, ms, pilot_id, new_project_id) ==
    IF ~HasPilot(ps, pilot_id) \/ ~HasMission(ms, new_project_id)
    THEN [pilots |-> ps,
          result |-> [success |-> FALSE, message |-> "Pilot or Mission not found"]]
    ELSE LET old_assignment == get_pilot_by_id(ps, pilot_id).current_assignment
             out == update_pilot_assignment(ps, pilot_id, new_project_id, "Assigned")
         IN  IF out.result.success
             THEN [pilots |-> out.pilots,
                   result |-> [success |-> TRUE,
                               message |-> "Pilot reassigned from " \o old_assignment
                                           \o " to " \o new_project_id,
                               old_assignment |-> old_assignment,
                               new_assignment |-> new_project_id]]
             ELSE out

\* reassign_drone that turns away a drone in Maintenance.
reassign_drone_not_in_maintenance(ds, ms, drone_id, new_project_id) ==
    IF ~HasDrone(ds, drone_id) \/ ~HasMission(ms, new_project_id)
    THEN [drones |-> ds,
          result |-> [success |-> FALSE, message |-> "Drone or Mission not found"]]
    ELSE IF get_drone_by_id(ds, drone_id).status = "Maintenance"
    THEN [drones |-> ds,
          result |-> [success |-> FALSE,
                      message |-> "Drone " \o drone_id \o " is Maintenance"]]
    ELSE LET old_assignment == get_drone_by_id(ds, drone_id).current_assignment
             out == assign_drone(ds, drone_id, new_project_id)
         IN  [drones |-> out.drones,
              result |-> [success |-> TRUE,
                          message |-> "Drone reassigned from " \o old_assignment
                                      \o " to " \o new_project_id,
                          old_assignment |-> old_assignment,
                          new_assignment |-> new_project_id]]

reassign_drone(ds, ms, drone_id, new_project_id) ==
    IF ~HasDrone(ds, drone_id) \/ ~HasMission(ms, new_project_id)
    THEN [drones |-> ds,
          result |-> [success |-> FALSE, message |-> "Drone or Mission not found"]]
    ELSE LET old_assignment == get_drone_by_id(ds, drone_id).current_assignment
             out == assign_drone(ds, drone_id, new_project_id)
         IN  IF out.result.success
             THEN [drones |-> out.drones,
                   result |-> [success |-> TRUE,
                               message |-> "Drone reassigned from " \o old_assignment
                                           \o " to " \o new_project_id,
                               old_assignment |-> old_assignment,
                               new_assignment |-> new_project_id]]
             ELSE out

\* unassign_pilot that leaves the assignment in place.
unassign_pilot_keep_assignment(ps, pilot_id) ==
    mark_pilot_available_keep_assignment(ps, pilot_id)

unassign_pilot(ps, pilot_id) == mark_pilot_available(ps, pilot_id)

unassign_drone(ds, drone_id) == mark_drone_available(ds, drone_id)

---------------------------------------------------------------------------
(* The operations as calls.  response keeps the call (its name and its     *)
(* arguments) and the dict it returned.                                    *)

PilotArgs == PilotIds \cup {UnknownPilot}

DroneArgs == DroneIds \cup {UnknownDrone}

MissionArgs == MissionIds \cup {UnknownMission}

PilotCall(op, pilot_id, project_id, out) ==
    /\ pilots' = out.pilots
    /\ response' = [op |-> op, pilot_id |-> pilot_id, project_id |-> project_id,
                    result |-> out.result]
    /\ UNCHANGED <<drones, missions>>

DroneCall(op, drone_id, project_id, out) ==
    /\ drones' = out.drones
    /\ response' = [op |-> op, drone_id |-> drone_id, project_id |-> project_id,
                    result |-> out.result]
    /\ UNCHANGED <<pilots, missions>>

AssignPilotToMission(pilot_id, project_id) ==
    PilotCall("assign_pilot_to_mission", pilot_id, project_id,
              assign_pilot_to_mission(pilots, missions, pilot_id, project_id))

ReassignPilot(pilot_id, project_id) ==
    PilotCall("reassign_pilot", pilot_id, project_id,
              reassign_pilot(pilots, missions, pilot_id, project_id))

UnassignPilot(pilot_id) ==
    PilotCall("unassign_pilot", pilot_id, None, unassign_pilot(pilots, pilot_id))

MarkPilotOnLeave(pilot_id, date) ==
    PilotCall("mark_pilot_on_leave", pilot_id, None,
              mark_pilot_on_leave(pilots, pilot_id, date))

MarkPilotAvailable(pilot_id) ==
    PilotCall("mark_pilot_available", pilot_id, None,
              mark_pilot_available(pilots, pilot_id))

AssignDroneToMission(drone_id, project_id) ==
    DroneCall("assign_drone_to_mission", drone_id, project_id,
              assign_drone_to_mission(drones, missions, drone_id, project_id))

ReassignDrone(drone_id, project_id) ==
    DroneCall("reassign_drone", drone_id, project_id,
              reassign_drone(drones, missions, drone_id, project_id))

UnassignDrone(drone_id) ==
    DroneCall("unassign_drone", drone_id, None, unassign_drone(drones, drone_id))

MarkDroneAvailable(drone_id) ==
    DroneCall("mark_drone_available", drone_id, None,
              mark_drone_available(drones, drone_id))

MarkDroneMaintenance(drone_id) ==
    DroneCall("mark_drone_maintenance", drone_id, None,
              mark_drone_maintenance(drones, drone_id))

\* The rows the operations start from: a free pilot, an unavailable one and one
\* On Leave that still carries a mission; the operations reach the other cells.
StartPilotCells ==
    {<<"Available", Sentinel>>, <<"Unavailable", Sentinel>>,
     <<"On Leave", MissionIdOf[1]>>}

\* A free drone and one in Maintenance that still carries a mission.
StartDroneCells == {<<"Available", Sentinel>>, <<"Maintenance", MissionIdOf[1]>>}

\* A fleet with nothing assigned.
IdleDrones == [i \in 1..NumDrones |-> DroneRow(i, DroneModelOf[i], "Available", Sentinel)]

Init ==
    /\ pilots \in PilotTablesOver(RosterNames, StartPilotCells)
    /\ drones \in DroneTablesOver(RosterModels, StartDroneCells)
    /\ missions = MissionTable
    /\ response = NoResponse
    /\ prev = NoCall

\* Every operation of the assignment coordinator, with any arguments.
Next ==
    \/ \E p \in PilotArgs, m \in MissionArgs :
           AssignPilotToMission(p, m) /\ UNCHANGED prev
    \/ \E p \in PilotArgs, m \in MissionArgs :
           ReassignPilot(p, m) /\ UNCHANGED prev
    \/ \E p \in PilotArgs : UnassignPilot(p) /\ UNCHANGED prev
    \/ \E p \in PilotArgs, d \in LeaveDates :
           MarkPilotOnLeave(p, d) /\ UNCHANGED prev
    \/ \E p \in PilotArgs : MarkPilotAvailable(p) /\ UNCHANGED prev
    \/ \E d \in DroneArgs, m \in MissionArgs :
           AssignDroneToMission(d, m) /\ UNCHANGED prev
    \/ \E d \in DroneArgs, m \in MissionArgs :
           ReassignDrone(d, m) /\ UNCHANGED prev
    \/ \E d \in DroneArgs : UnassignDrone(d) /\ UNCHANGED prev
    \/ \E d \in DroneArgs : MarkDroneAvailable(d) /\ UNCHANGED prev
    \/ \E d \in DroneArgs : MarkDroneMaintenance(d) /\ UNCHANGED prev

Spec == Init /\ [][Next]_vars

\* The pilot operations on the starting rows, with the previous call
\* kept in prev: two calls in a row are then visible in one state.
InitSeq ==
    /\ pilots \in PilotTablesOver(RosterNames, StartPilotCells)
    /\ drones = IdleDrones
    /\ missions = MissionTable
    /\ response = NoResponse
    /\ prev = NoCall

NextSeq ==
    \/ \E p \in PilotIds, m \in MissionIds :
           AssignPilotToMission(p, m) /\ prev' = response
    \/ \E p \in PilotIds, m \in MissionIds :
           ReassignPilot(p, m) /\ prev' = response
    \/ \E p \in PilotIds : UnassignPilot(p) /\ prev' = response
    \/ \E p \in PilotIds : MarkPilotAvailable(p) /\ prev' = response

SpecSeq == InitSeq /\ [][NextSeq]_vars

---------------------------------------------------------------------------
(* RosterManager.find_best_pilot_for_mission.                              *)

\* One entry of best_matches.  The source's score, skill_match * 2 +
\* cert_match * 1.5 + location_match * 0.5, is kept doubled, as an integer.
MatchEntry(p, skill_match, cert_match, location_match) ==
    [pilot_id |-> p.pilot_id, name |-> p.name,
     score_x2 |-> skill_match * 4 + cert_match * 3 + location_match,
     skills_match |-> skill_match, cert_match |-> cert_match,
     location_match |-> location_match]

\* MatchOfRow with "some certification matches" for "all of them match".
MatchOfRow_AnyCert(p, required_skills, required_certs, location) ==
    IF p.status # "Available" THEN <<>>
    ELSE LET pilot_skills == SplitStrip(p.skills)
             pilot_certs == SplitStrip(p.certifications)
             skill_match == CountIn(SplitStrip(required_skills), pilot_skills)
             cert_match == CountIn(SplitStrip(required_certs), pilot_certs)
             location_match == IF p.location = location THEN 1 ELSE 0
         IN  IF skill_match > 0 /\ cert_match > 0
             THEN <<MatchEntry(p, skill_match, cert_match, location_match)>>
             ELSE <<>>

\* The body of the loop over the Available pilots.
MatchOfRow(p, required_skills, required_certs, location) ==
    IF p.status # "Available" THEN <<>>
    ELSE LET pilot_skills == SplitStrip(p.skills)
             pilot_certs == SplitStrip(p.certifications)
             required_skills_list == SplitStrip(required_skills)
             required_certs_list == SplitStrip(required_certs)
             skill_match == CountIn(required_skills_list, pilot_skills)
             cert_match == CountIn(required_certs_list, pilot_certs)
             location_match == IF p.location = location THEN 1 ELSE 0
         IN  IF skill_match > 0 /\ cert_match = Len(required_certs_list)
             THEN <<MatchEntry(p, skill_match, cert_match, location_match)>>
             ELSE <<>>

\* One step of the stable descending sort: x goes behind every entry whose
\* score is not smaller.
RECURSIVE InsertByScore(_, _)
InsertByScore(sorted, x) ==
    IF Len(sorted) = 0 THEN <<x>>
    ELSE IF Head(sorted).score_x2 >= x.score_x2
         THEN <<Head(sorted)>> \o InsertByScore(Tail(sorted), x)
         ELSE <<x>> \o sorted

\* best_matches.sort(key=score, reverse=True): stable.
RECURSIVE SortByScore(_)
SortByScore(list) ==
    IF Len(list) = 0 THEN <<>>
    ELSE InsertByScore(SortByScore(SubSeq(list, 1, Len(list) - 1)), list[Len(list)])

\* find_best_pilot_for_mission without the sort.
find_best_pilot_for_mission_unsorted(ps, required_skills, required_certs, location) ==
    Flatten([i \in 1..Len(ps) |->
        MatchOfRow(ps[i], required_skills, required_certs, location)])

find_best_pilot_for_mission(ps, required_skills, required_certs, location) ==
    SortByScore(Flatten([i \in 1..Len(ps) |->
        MatchOfRow(ps[i], required_skills, required_certs, location)]))

FindBestPilotForMission(required_skills, required_certs, location) ==
    /\ response' = [op |-> "find_best_pilot_for_mission",
                    required_skills |-> required_skills,
                    required_certs |-> required_certs,
                    location |-> location,
                    result |-> find_best_pilot_for_mission(
                                   pilots, required_skills, required_certs, location)]
    /\ UNCHANGED <<pilots, drones, missions>>

\* The skills and certifications columns of the pilots that are ranked, and
\* the requirements asked for ("" is a column left empty).
RankSkillFields == {<<"Mapping">>, <<"Mapping", " Survey">>, <<"Inspection">>}

RankCertFields == {<<"DGCA">>, <<"DGCA", " Night Ops">>, <<"Night Ops">>}

RankRequiredSkills == {<<"Mapping">>, <<"Survey", " Mapping">>, <<"Thermal">>}

RankRequiredCerts == {<<"DGCA">>, <<"Night Ops", " DGCA">>, <<"">>}

Locations == {"Bangalore", "Mumbai"}

RankPilotTables ==
    {[i \in 1..NumPilots |->
        [PilotRow(i, PilotNameOf[i], c[i][1], c[i][2])
            EXCEPT !.skills = sk[i], !.certifications = ce[i]]] :
        c \in [1..NumPilots -> {<<"Available", Sentinel>>, <<"Assigned", MissionIdOf[1]>>}],
        sk \in [1..NumPilots -> RankSkillFields],
        ce \in [1..NumPilots -> RankCertFields]}

InitRank ==
    /\ pilots \in RankPilotTables
    /\ drones = IdleDrones
    /\ missions = MissionTable
    /\ response = NoResponse
    /\ prev = NoCall

\* The locations asked for: those of the pilots and one where no pilot is.
RankLocationArgs == Locations \cup {"Delhi"}

NextRank ==
    \E rs \in RankRequiredSkills, rc \in RankRequiredCerts, loc \in RankLocationArgs :
        FindBestPilotForMission(rs, rc, loc) /\ UNCHANGED prev

SpecRank == InitRank /\ [][NextRank]_vars

---------------------------------------------------------------------------
(* Properties of the ranking and of the assignment operations.             *)

\* C3: every pilot returned by find_best_pilot_for_mission holds every
\* required certification: required_certs is a subset of its certifications.
C3_RankedPilotsHoldRequiredCerts ==
    response.op = "find_best_pilot_for_mission" =>
        \A k \in 1..Len(response.result) :
            PieceSet(response.required_certs)
                \subseteq PieceSet(get_pilot_by_id(pilots, response.result[k].pilot_id)
                                       .certifications)

\* A ranking for two required certifications that returns a pilot and leaves
\* out an Available pilot who has a required skill and only one of the two.
C3_Witness ==
    /\ response.op = "find_best_pilot_for_mission"
    /\ Cardinality(PieceSet(response.required_certs)) = 2
    /\ Len(response.result) = 1
    /\ \E i \in 1..Len(pilots) :
           /\ pilots[i].status = "Available"
           /\ pilots[i].pilot_id # response.result[1].pilot_id
           /\ PieceSet(response.required_skills) \cap PieceSet(pilots[i].skills) # {}
           /\ PieceSet(response.required_certs) \cap PieceSet(pilots[i].certifications) # {}

StatusOf(ps, pilot_id) == get_pilot_by_id(ps, pilot_id).status

AssignmentOf(ps, pilot_id) == get_pilot_by_id(ps, pilot_id).current_assignment

\* C4: mark_pilot_available on an existing pilot in any status returns success
\* and leaves it Available with the sentinel; a second call right after the
\* first returns success again and changes nothing.
C4_MarkAvailableIdempotent ==
    [][\A p \in PilotIds :
         (response'.op = "mark_pilot_available" /\ response'.pilot_id = p) =>
            /\ response'.result.success
            /\ StatusOf(pilots', p) = "Available"
            /\ AssignmentOf(pilots', p) = Sentinel
            /\ (/\ response.op = "mark_pilot_available"
                /\ response.pilot_id = p
                /\ response.result.success)
               => pilots' = pilots /\ drones' = drones /\ missions' = missions
      ]_vars

\* Two successful mark_pilot_available calls in a row on the same pilot.
C4_Witness ==
    /\ prev.op = "mark_pilot_available"
    /\ response.op = "mark_pilot_available"
    /\ prev.pilot_id = response.pilot_id
    /\ prev.result.success /\ response.result.success
    /\ StatusOf(pilots, response.pilot_id) = "Available"
    /\ AssignmentOf(pilots, response.pilot_id) = Sentinel

\* C5: for an Available pilot P and existing missions M1 and M2,
\* assign_pilot_to_mission(P, M1) succeeds, and reassign_pilot(P, M2) right
\* after it succeeds, leaves P Assigned to M2 and reports old_assignment = M1.
C5_AssignThenReassign ==
    [][\A p \in PilotIds, m \in MissionIds :
         /\ (/\ response'.op = "assign_pilot_to_mission"
             /\ response'.pilot_id = p /\ response'.project_id = m
             /\ StatusOf(pilots, p) = "Available")
            => /\ response'.result.success
               /\ StatusOf(pilots', p) = "Assigned"
               /\ AssignmentOf(pilots', p) = m
         /\ (/\ response.op = "assign_pilot_to_mission"
             /\ response.pilot_id = p /\ response.result.success
             /\ response'.op = "reassign_pilot"
             /\ response'.pilot_id = p /\ response'.project_id = m)
            => /\ response'.result.success
               /\ StatusOf(pilots', p) = "Assigned"
               /\ AssignmentOf(pilots', p) = m
               /\ response'.result.old_assignment = response.project_id
      ]_vars

\* A successful assign to one mission followed at once by a successful
\* reassign of the same pilot to another.
C5_Witness ==
    /\ prev.op = "assign_pilot_to_mission" /\ prev.result.success
    /\ response.op = "reassign_pilot" /\ response.result.success
    /\ prev.pilot_id = response.pilot_id
    /\ prev.project_id # response.project_id
    /\ response.result.old_assignment = prev.project_id
    /\ AssignmentOf(pilots, response.pilot_id) = response.project_id

\* C9: assign_pilot_to_mission(p, m) succeeds only if p and m exist and p was
\* Available; on success p ends Assigned to m; for a pilot in any other status
\* it returns success = false and leaves status and assignment as they were.
C9_AssignPilotContract ==
    [][\A p \in PilotArgs, m \in MissionArgs :
         (/\ response'.op = "assign_pilot_to_mission"
          /\ response'.pilot_id = p /\ response'.project_id = m)
         => /\ response'.result.success =>
                /\ HasPilot(pilots, p) /\ HasMission(missions, m)
                /\ StatusOf(pilots, p) = "Available"
                /\ StatusOf(pilots', p) = "Assigned"
                /\ AssignmentOf(pilots', p) = m
            /\ (HasPilot(pilots, p) /\ StatusOf(pilots, p) # "Available") =>
                /\ ~response'.result.success
                /\ StatusOf(pilots', p) = StatusOf(pilots, p)
                /\ AssignmentOf(pilots', p) = AssignmentOf(pilots, p)
      ]_vars

\* A successful assignment, made while another pilot is Unavailable.
C9_Witness ==
    /\ response.op = "assign_pilot_to_mission"
    /\ response.result.success
    /\ StatusOf(pilots, response.pilot_id) = "Assigned"
    /\ AssignmentOf(pilots, response.pilot_id) = response.project_id
    /\ \E i \in 1..Len(pilots) : pilots[i].status = "Unavailable"

MutatingOps ==
    {"assign_pilot_to_mission", "assign_drone_to_mission", "reassign_pilot",
     "reassign_drone", "unassign_pilot", "unassign_drone", "mark_pilot_on_leave",
     "mark_pilot_available", "mark_drone_available", "mark_drone_maintenance"}

\* C10: every call of the ten operations that returns success = false leaves
\* the three tables exactly as they were.
C10_FailedCallChangesNothing ==
    [][(response'.op \in MutatingOps /\ ~response'.result.success)
         => pilots' = pilots /\ drones' = drones /\ missions' = missions
      ]_vars

\* A reassign_pilot to a mission id that no mission carries has failed, on a
\* pilot that exists.
C10_Witness ==
    /\ response.op = "reassign_pilot"
    /\ ~response.result.success
    /\ HasPilot(pilots, response.pilot_id)
    /\ ~HasMission(missions, response.project_id)

DroneStatusOf(ds, drone_id) == get_drone_by_id(ds, drone_id).status

DroneAssignmentOf(ds, drone_id) == get_drone_by_id(ds, drone_id).current_assignment

\* C11: for an existing pilot in any prior status and an existing mission m,
\* reassign_pilot succeeds, leaves the pilot Assigned to m and returns as
\* old_assignment the assignment from before the call; reassign_drone does the
\* same for a drone, with status Deployed.
C11_ReassignIgnoresStatus ==
    [][/\ \A p \in PilotIds, m \in MissionIds :
            (/\ response'.op = "reassign_pilot"
             /\ response'.pilot_id = p /\ response'.project_id = m)
            => /\ response'.result.success
               /\ StatusOf(pilots', p) = "Assigned"
               /\ AssignmentOf(pilots', p) = m
               /\ response'.result.old_assignment = AssignmentOf(pilots, p)
       /\ \A d \in DroneIds, m \in MissionIds :
            (/\ response'.op = "reassign_drone"
             /\ response'.drone_id = d /\ response'.project_id = m)
            => /\ response'.result.success
               /\ DroneStatusOf(drones', d) = "Deployed"
               /\ DroneAssignmentOf(drones', d) = m
               /\ response'.result.old_assignment = DroneAssignmentOf(drones, d)
      ]_vars

\* A reassign_pilot has moved a pilot off a mission it was on, while a drone
\* is in Maintenance.
C11_Witness ==
    /\ response.op = "reassign_pilot"
    /\ response.result.success
    /\ response.result.old_assignment \in MissionIds \ {response.project_id}
    /\ AssignmentOf(pilots, response.pilot_id) = response.project_id
    /\ \E i \in 1..Len(drones) : drones[i].status = "Maintenance"

\* C12: assign_drone_to_mission(d, m) succeeds only if d and m exist and d
\* was Available; on success d ends Deployed on m; a Deployed or Maintenance
\* drone gets success = false and is not changed.
C12_AssignDroneContract ==
    [][\A d \in DroneArgs, m \in MissionArgs :
         (/\ response'.op = "assign_drone_to_mission"
          /\ response'.drone_id = d /\ response'.project_id = m)
         => /\ response'.result.success =>
                /\ HasDrone(drones, d) /\ HasMission(missions, m)
                /\ DroneStatusOf(drones, d) = "Available"
                /\ DroneStatusOf(drones', d) = "Deployed"
                /\ DroneAssignmentOf(drones', d) = m
            /\ (HasDrone(drones, d)
                /\ DroneStatusOf(drones, d) \in {"Deployed", "Maintenance"}) =>
                /\ ~response'.result.success
                /\ drones' = drones
      ]_vars

\* An assign_drone_to_mission has been turned away for a Deployed drone and an
\* existing mission.
C12_Witness ==
    /\ response.op = "assign_drone_to_mission"
    /\ ~response.result.success
    /\ HasDrone(drones, response.drone_id)
    /\ HasMission(missions, response.project_id)
    /\ DroneStatusOf(drones, response.drone_id) = "Deployed"

\* C13: for an existing pilot (drone) in any prior status and with any prior
\* assignment, unassign_pilot (unassign_drone) returns success and leaves it
\* Available with the sentinel as assignment.
C13_UnassignMakesAvailable ==
    [][/\ \A p \in PilotIds :
            (response'.op = "unassign_pilot" /\ response'.pilot_id = p)
            => /\ response'.result.success
               /\ StatusOf(pilots', p) = "Available"
               /\ AssignmentOf(pilots', p) = Sentinel
       /\ \A d \in DroneIds :
            (response'.op = "unassign_drone" /\ response'.drone_id = d)
            => /\ response'.result.success
               /\ DroneStatusOf(drones', d) = "Available"
               /\ DroneAssignmentOf(drones', d) = Sentinel
      ]_vars

\* An unassign_drone has succeeded and the drone is Available with the
\* sentinel, after some pilot was assigned.
C13_Witness ==
    /\ response.op = "unassign_drone"
    /\ response.result.success
    /\ DroneStatusOf(drones, response.drone_id) = "Available"
    /\ DroneAssignmentOf(drones, response.drone_id) = Sentinel
    /\ \E i \in 1..Len(pilots) : pilots[i].status = "Assigned"

---------------------------------------------------------------------------
(* ConflictDetector: the replacement search and the automatic              *)
(* reassignment.                                                           *)

\* The loop over location_match: best_pilot is <<>> for None and <<row>> for a
\* row; a later row replaces it only with a strictly larger score.
RECURSIVE BestFrom(_, _, _, _, _)
BestFrom(rows, required_skills, required_certs, best_pilot, best_score) ==
    IF Len(rows) = 0 THEN best_pilot
    ELSE LET pilot == Head(rows)
             pilot_skills == SplitStripLower(pilot.skills)
             pilot_certs == SplitStripLower(pilot.certifications)
             skill_matches == CountIn(required_skills, pilot_skills)
             cert_matches == CountIn(required_certs, pilot_certs)
             score == skill_matches * 2 + cert_matches
         IN  IF ~InList("dgca", pilot_certs)
             THEN BestFrom(Tail(rows), required_skills, required_certs,
                           best_pilot, best_score)
             ELSE IF score > best_score
             THEN BestFrom(Tail(rows), required_skills, required_certs,
                           <<pilot>>, score)
             ELSE BestFrom(Tail(rows), required_skills, required_certs,
                           best_pilot, best_score)

\* find_best_replacement_pilot without the filter by location.
find_best_replacement_pilot_any_location(ps, ms, mission_id) ==
    IF ~HasMission(ms, mission_id) THEN <<>>
    ELSE LET mission == get_mission_by_id(ms, mission_id)
             available_pilots == SelectSeq(ps, LAMBDA p : p.status = "Available")
         IN  IF Len(available_pilots) = 0 THEN <<>>
             ELSE BestFrom(available_pilots,
                           SplitStripLower(mission.required_skills),
                           SplitStripLower(mission.required_certs), <<>>, -1)

\* ConflictDetector.find_best_replacement_pilot(mission_id): <<>> for None,
\* <<row>> for the pilot row returned.
find_best_replacement_pilot(ps, ms, mission_id) ==
    IF ~HasMission(ms, mission_id) THEN <<>>
    ELSE LET mission == get_mission_by_id(ms, mission_id)
             available_pilots == SelectSeq(ps, LAMBDA p : p.status = "Available")
             location_match ==
                 SelectSeq(available_pilots, LAMBDA p : p.location = mission.location)
         IN  IF Len(location_match) = 0 THEN <<>>
             ELSE BestFrom(location_match,
                           SplitStripLower(mission.required_skills),
                           SplitStripLower(mission.required_certs), <<>>, -1)

FindBestReplacementPilot(mission_id) ==
    /\ response' = [op |-> "find_best_replacement_pilot",
                    project_id |-> mission_id,
                    result |-> find_best_replacement_pilot(pilots, missions, mission_id)]
    /\ UNCHANGED <<pilots, drones, missions>>

\* 'key' in conflict
HasKey(conflict, key) == key \in DOMAIN conflict

\* urgent_conflicts: the CRITICAL and HIGH findings, in the order returned.
UrgentConflicts(ps, ds, ms) ==
    SelectSeq(get_all_conflicts(ps, ds, ms),
              LAMBDA c : c.severity \in {"CRITICAL", "HIGH"})

\* conflict.get('pilot_status', 'On Leave')
PilotStatusIn(conflict) ==
    IF HasKey(conflict, "pilot_status") THEN conflict.pilot_status ELSE "On Leave"

\* conflict.get('pilot_name', old_pilot_id)
PilotNameIn(conflict) ==
    IF HasKey(conflict, "pilot_name") THEN conflict.pilot_name ELSE conflict.pilot_id

\* The records appended by the two branches (the messages without their
\* leading mark).
SuccessRecord(conflict, replacement) ==
    [conflict |-> conflict.issue, old_pilot |-> PilotNameIn(conflict),
     new_pilot |-> replacement.name, new_pilot_id |-> replacement.pilot_id,
     mission |-> conflict.assignment, status |-> "SUCCESS",
     message |-> "Auto-reassigned " \o conflict.assignment \o ": "
                 \o PilotNameIn(conflict) \o " -> " \o replacement.name]

FailedRecord(conflict) ==
    [conflict |-> conflict.issue, old_pilot |-> PilotNameIn(conflict),
     new_pilot |-> None, mission |-> conflict.assignment, status |-> "FAILED",
     message |-> "No suitable replacement found for " \o conflict.assignment]

\* ReassignStep that clears the old pilot before it looks for a replacement.
ReassignStep_ClearsFirst(ps, ms, conflict) ==
    IF ~(HasKey(conflict, "pilot_id") /\ HasKey(conflict, "assignment"))
    THEN [pilots |-> ps, records |-> <<>>]
    ELSE LET cleared == update_pilot_status(ps, conflict.pilot_id,
                                            PilotStatusIn(conflict), Sentinel, None)
             replacement == find_best_replacement_pilot(ps, ms, conflict.assignment)
         IN  IF Len(replacement) > 0
             THEN [pilots |-> update_pilot_status(cleared, replacement[1].pilot_id,
                                                  "Assigned", conflict.assignment, None),
                   records |-> <<SuccessRecord(conflict, replacement[1])>>]
             ELSE [pilots |-> cleared, records |-> <<FailedRecord(conflict)>>]

\* ReassignStep that sets the old pilot Available when it clears it.
ReassignStep_FreesOldPilot(ps, ms, conflict) ==
    IF ~(HasKey(conflict, "pilot_id") /\ HasKey(conflict, "assignment"))
    THEN [pilots |-> ps, records |-> <<>>]
    ELSE LET replacement == find_best_replacement_pilot(ps, ms, conflict.assignment)
         IN  IF Len(replacement) > 0
             THEN [pilots |-> update_pilot_status(
                                  update_pilot_status(ps, conflict.pilot_id,
                                                      "Available", Sentinel, None),
                                  replacement[1].pilot_id, "Assigned",
                                  conflict.assignment, None),
                   records |-> <<SuccessRecord(conflict, replacement[1])>>]
             ELSE [pilots |-> ps, records |-> <<FailedRecord(conflict)>>]

\* One pass of the loop over urgent_conflicts: the pilot table after it and
\* the records it appended (none for a finding without pilot_id or assignment).
ReassignStep(ps, ms, conflict) ==
    IF ~(HasKey(conflict, "pilot_id") /\ HasKey(conflict, "assignment"))
    THEN [pilots |-> ps, records |-> <<>>]
    ELSE LET mission_id == conflict.assignment
             old_pilot_id == conflict.pilot_id
             replacement == find_best_replacement_pilot(ps, ms, mission_id)
         IN  IF Len(replacement) > 0
             THEN LET new_pilot_id == replacement[1].pilot_id
                      cleared == update_pilot_status(ps, old_pilot_id,
                                                     PilotStatusIn(conflict),
                                                     Sentinel, None)
                      assigned == update_pilot_status(cleared, new_pilot_id,
                                                      "Assigned", mission_id, None)
                  IN  [pilots |-> assigned,
                       records |-> <<SuccessRecord(conflict, replacement[1])>>]
             ELSE [pilots |-> ps, records |-> <<FailedRecord(conflict)>>]

\* The loop from some point on: the findings still to process, the table as
\* the passes so far left it and the records appended so far.
RECURSIVE ReassignFrom(_, _, _, _)
ReassignFrom(ps, ms, conflicts, reassignments) ==
    IF Len(conflicts) = 0
    THEN [pilots |-> ps, reassignments |-> reassignments]
    ELSE LET step == ReassignStep(ps, ms, Head(conflicts))
         IN  ReassignFrom(step.pilots, ms, Tail(conflicts),
                          reassignments \o step.records)

\* The loop with every replacement looked up in the table as it was when the
\* findings were computed.
RECURSIVE ReassignFromSnapshot(_, _, _, _, _)
ReassignFromSnapshot(snapshot, ps, ms, conflicts, reassignments) ==
    IF Len(conflicts) = 0
    THEN [pilots |-> ps, reassignments |-> reassignments]
    ELSE LET conflict == Head(conflicts)
             replacement == find_best_replacement_pilot(snapshot, ms, conflict.assignment)
         IN  IF ~(HasKey(conflict, "pilot_id") /\ HasKey(conflict, "assignment"))
             THEN ReassignFromSnapshot(snapshot, ps, ms, Tail(conflicts), reassignments)
             ELSE IF Len(replacement) > 0
             THEN ReassignFromSnapshot(snapshot,
                      update_pilot_status(
                          update_pilot_status(ps, conflict.pilot_id,
                                              PilotStatusIn(conflict), Sentinel, None),
                          replacement[1].pilot_id, "Assigned", conflict.assignment, None),
                      ms, Tail(conflicts),
                      reassignments \o <<SuccessRecord(conflict, replacement[1])>>)
             ELSE ReassignFromSnapshot(snapshot, ps, ms, Tail(conflicts),
                                       reassignments \o <<FailedRecord(conflict)>>)

\* auto_reassign_urgent_conflicts with the replacements looked up in the
\* snapshot.
auto_reassign_urgent_conflicts_from_snapshot(ps, ds, ms) ==
    ReassignFromSnapshot(ps, ps, ms, UrgentConflicts(ps, ds, ms), <<>>)

\* ConflictDetector.auto_reassign_urgent_conflicts(roster_manager): the pilot
\* table after the batch and the list returned.
auto_reassign_urgent_conflicts(ps, ds, ms) ==
    ReassignFrom(ps, ms, UrgentConflicts(ps, ds, ms), <<>>)

AutoReassignUrgentConflicts ==
    LET out == auto_reassign_urgent_conflicts(pilots, drones, missions)
    IN  /\ pilots' = out.pilots
        /\ response' = [op |-> "auto_reassign_urgent_conflicts",
                        result |-> out.reassignments]
        /\ UNCHANGED <<drones, missions>>

\* The number of pilot rows of the tables the batch is run on.
NumAutoPilots == 3

AutoPilotIds == {PilotIdOf[i] : i \in 1..NumAutoPilots}

\* A mission table with two missions at one location.
SameSiteMissions == <<MissionRowOf[1], MissionRowOf[3]>>

AutoMissionArgs == {MissionIdOf[1], MissionIdOf[3], UnknownMission}

\* The <<status, current_assignment>> pairs of the loaded rows: free pilots,
\* pilots booked while On Leave or Unavailable, an Assigned pilot, an Available
\* row that still carries an assignment, and an assignment to a mission that
\* no row of the mission table describes.
AutoPilotCells ==
    {<<"Available", Sentinel>>, <<"Available", MissionIdOf[3]>>,
     <<"On Leave", MissionIdOf[1]>>, <<"On Leave", MissionIdOf[3]>>,
     <<"Unavailable", MissionIdOf[3]>>, <<"Assigned", MissionIdOf[3]>>,
     <<"On Leave", UnknownMission>>}

AutoCertFields == {<<"DGCA">>, <<"Night Ops">>}

AutoPilotTables ==
    {[i \in 1..NumAutoPilots |->
        [PilotRow(i, PilotNameOf[i], c[i][1], c[i][2])
            EXCEPT !.certifications = ce[i], !.location = lo[i]]] :
        c \in [1..NumAutoPilots -> AutoPilotCells],
        ce \in [1..NumAutoPilots -> AutoCertFields],
        lo \in [1..NumAutoPilots -> Locations]}

\* The first drone is in Maintenance with an assignment, the others are idle.
AutoDrones ==
    [i \in 1..NumDrones |->
        IF i = 1 THEN DroneRow(i, DroneModelOf[i], "Maintenance", MissionIdOf[1])
        ELSE DroneRow(i, DroneModelOf[i], "Available", Sentinel)]

InitAuto ==
    /\ pilots \in AutoPilotTables
    /\ drones = AutoDrones
    /\ missions = SameSiteMissions
    /\ response = NoResponse
    /\ prev = NoCall

NextAuto == AutoReassignUrgentConflicts /\ UNCHANGED prev

SpecAuto == InitAuto /\ [][NextAuto]_vars

\* The tables the replacement search is run on: free and Assigned pilots with
\* any of the certification columns, at either location.
ReplacePilotTables ==
    {[i \in 1..NumAutoPilots |->
        [PilotRow(i, PilotNameOf[i], c[i][1], c[i][2])
            EXCEPT !.certifications = ce[i], !.location = lo[i]]] :
        c \in [1..NumAutoPilots ->
                  {<<"Available", Sentinel>>, <<"Assigned", MissionIdOf[3]>>}],
        ce \in [1..NumAutoPilots -> RankCertFields],
        lo \in [1..NumAutoPilots -> Locations]}

InitReplace ==
    /\ pilots \in ReplacePilotTables
    /\ drones = IdleDrones
    /\ missions = SameSiteMissions
    /\ response = NoResponse
    /\ prev = NoCall

NextReplace ==
    \E m \in AutoMissionArgs : FindBestReplacementPilot(m) /\ UNCHANGED prev

SpecReplace == InitReplace /\ [][NextReplace]_vars

---------------------------------------------------------------------------
(* Properties of the automatic reassignment.                               *)

\* The pilot table as the passes before the k-th finding left it.
RECURSIVE TableBeforeStep(_, _, _, _)
TableBeforeStep(ps, ms, conflicts, k) ==
    IF k = 1 THEN ps
    ELSE TableBeforeStep(ReassignStep(ps, ms, Head(conflicts)).pilots, ms,
                         Tail(conflicts), k - 1)

\* The finding is one the loop acts on.
CarriesPilot(conflict) == HasKey(conflict, "pilot_id") /\ HasKey(conflict, "assignment")

\* C14: for each CRITICAL or HIGH finding with pilot_id and assignment for
\* which a replacement is found, after that pass the old pilot has the
\* sentinel as assignment and the status recorded in the finding (On Leave
\* if none), the replacement is Assigned to the finding's mission, and one
\* SUCCESS record naming that replacement and mission is appended.
C14_SuccessfulStepSwapsPilots ==
    [][response'.op = "auto_reassign_urgent_conflicts" =>
        LET conflicts == UrgentConflicts(pilots, drones, missions)
        IN  /\ pilots' = TableBeforeStep(pilots, missions, conflicts, Len(conflicts) + 1)
            /\ \A k \in 1..Len(conflicts) :
                 LET c == conflicts[k]
                     before == TableBeforeStep(pilots, missions, conflicts, k)
                     after == TableBeforeStep(pilots, missions, conflicts, k + 1)
                     records == ReassignStep(before, missions, c).records
                     found == IF CarriesPilot(c)
                              THEN find_best_replacement_pilot(before, missions,
                                                               c.assignment)
                              ELSE <<>>
                 IN  Len(found) > 0 =>
                        /\ AssignmentOf(after, c.pilot_id) = Sentinel
                        /\ StatusOf(after, c.pilot_id) = PilotStatusIn(c)
                        /\ StatusOf(after, found[1].pilot_id) = "Assigned"
                        /\ AssignmentOf(after, found[1].pilot_id) = c.assignment
                        /\ Len(records) = 1
                        /\ records[1].status = "SUCCESS"
                        /\ records[1].new_pilot_id = found[1].pilot_id
                        /\ records[1].mission = c.assignment
      ]_vars

\* The batch that has just returned.
BatchReturned == response.op = "auto_reassign_urgent_conflicts"

\* C15: a finding for which find_best_replacement_pilot returns none gets a
\* FAILED record with new_pilot = None and its pass changes no row; a batch
\* whose records are all FAILED leaves the three tables unchanged.
C15_FailedStepChangesNothing ==
    [][response'.op = "auto_reassign_urgent_conflicts" =>
        LET conflicts == UrgentConflicts(pilots, drones, missions)
        IN  /\ \A k \in 1..Len(conflicts) :
                 LET c == conflicts[k]
                     before == TableBeforeStep(pilots, missions, conflicts, k)
                     after == TableBeforeStep(pilots, missions, conflicts, k + 1)
                     records == ReassignStep(before, missions, c).records
                 IN  (/\ CarriesPilot(c)
                      /\ Len(find_best_replacement_pilot(before, missions,
                                                         c.assignment)) = 0)
                     => /\ Len(records) = 1
                        /\ records[1].status = "FAILED"
                        /\ records[1].new_pilot = None
                        /\ after = before
            /\ (\A i \in 1..Len(response'.result) :
                    response'.result[i].status = "FAILED")
               => pilots' = pilots /\ drones' = drones /\ missions' = missions
      ]_vars

\* A batch has returned FAILED records only, one for a mission that no row
\* describes and one for a mission of the table, while a pilot is Available.
C15_Witness ==
    /\ BatchReturned
    /\ \A i \in 1..Len(response.result) : response.result[i].status = "FAILED"
    /\ \E i, j \in 1..Len(response.result) :
           /\ ~HasMission(missions, response.result[i].mission)
           /\ HasMission(missions, response.result[j].mission)
    /\ \E i \in 1..Len(pilots) : pilots[i].status = "Available"

\* The records a batch would return if every finding were processed on the
\* table the batch started from.
RECURSIVE IndependentRecords(_, _, _)
IndependentRecords(ps, ms, conflicts) ==
    IF Len(conflicts) = 0 THEN <<>>
    ELSE ReassignStep(ps, ms, Head(conflicts)).records
         \o IndependentRecords(ps, ms, Tail(conflicts))

LowerPieceSet(field) == {Lower(Strip(field[i])) : i \in 1..Len(field)}

\* A pilot that may replace another on the mission.
Eligible(p, mission) ==
    /\ p.status = "Available"
    /\ p.location = mission.location
    /\ "dgca" \in LowerPieceSet(p.certifications)

\* skill_overlap * 2 + cert_overlap
OverlapScore(p, mission) ==
    2 * Cardinality(LowerPieceSet(mission.required_skills) \cap LowerPieceSet(p.skills))
    + Cardinality(LowerPieceSet(mission.required_certs)
                  \cap LowerPieceSet(p.certifications))

\* C17: find_best_replacement_pilot(m) returns none when m is unknown or no
\* pilot is eligible; otherwise it returns a pilot that is Available, at the
\* mission's location and holds DGCA, whose score skill_overlap * 2 +
\* cert_overlap is maximal among the eligible pilots, and which is the first
\* in table order among those with the maximal score.
C17_BestReplacementIsFirstMaximal ==
    response.op = "find_best_replacement_pilot" =>
        LET m == response.project_id
            eligible == IF HasMission(missions, m)
                        THEN {i \in 1..Len(pilots) :
                                 Eligible(pilots[i], get_mission_by_id(missions, m))}
                        ELSE {}
        IN  IF eligible = {}
            THEN response.result = <<>>
            ELSE LET mission == get_mission_by_id(missions, m)
                 IN  /\ Len(response.result) = 1
                     /\ \E i \in eligible :
                          /\ response.result[1] = pilots[i]
                          /\ \A j \in eligible :
                                /\ OverlapScore(pilots[j], mission)
                                     <= OverlapScore(pilots[i], mission)
                                /\ j < i => OverlapScore(pilots[j], mission)
                                              < OverlapScore(pilots[i], mission)

\* The search has passed over an eligible pilot for one later in the table,
\* while an Available pilot at another location was left out.
C17_Witness ==
    /\ response.op = "find_best_replacement_pilot"
    /\ Len(response.result) = 1
    /\ \E i, j \in 1..Len(pilots) :
          /\ j < i
          /\ response.result[1] = pilots[i]
          /\ Eligible(pilots[j], get_mission_by_id(missions, response.project_id))
    /\ \E i \in 1..Len(pilots) :
          /\ pilots[i].status = "Available"
          /\ pilots[i].location
               # get_mission_by_id(missions, response.project_id).location

---------------------------------------------------------------------------
(* Further properties of the detectors.                                    *)

\* C18: the list returned by get_all_conflicts() never holds two findings
\* with the same issue string, and for each issue string the detectors
\* produced the finding kept is the first one in the order double booking,
\* skill, certification, location, maintenance, urgent.
C18_FirstFindingPerIssueKept ==
    response.op = "get_all_conflicts" =>
        LET all == AllDetected(pilots, drones, missions)
            kept == response.result
        IN  /\ \A i, j \in 1..Len(kept) : i # j => kept[i].issue # kept[j].issue
            /\ \A k \in 1..Len(all) :
                 \E i \in 1..Len(kept) :
                    /\ kept[i].issue = all[k].issue
                    /\ kept[i] = all[MinOf({n \in 1..Len(all) :
                                              all[n].issue = all[k].issue})]

\* Two findings with one issue string and different pilots were detected, and
\* the list returned holds the first of them only.
C18_Witness ==
    /\ response.op = "get_all_conflicts"
    /\ LET all == AllDetected(pilots, drones, missions)
       IN  \E m, n \in 1..Len(all) :
              /\ m < n
              /\ all[m].issue = all[n].issue
              /\ all[m] # all[n]
              /\ \E i \in 1..Len(response.result) : response.result[i] = all[m]
              /\ \A i \in 1..Len(response.result) : response.result[i] # all[n]

\* The findings of list that carry the given id in the given column.
FindingsOf(list, idcol, id) ==
    {list[k].type : k \in {n \in 1..Len(list) :
                             HasKey(list[n], idcol) /\ list[n][idcol] = id}}

\* The row's assignment names a mission that no row of the table describes.
Dangling(row) ==
    row.current_assignment # Sentinel /\ ~HasMission(missions, row.current_assignment)

\* C19: a pilot or drone whose non-sentinel assignment names a mission id
\* absent from the mission table gets no Skill Mismatch, Certification
\* Mismatch, Pilot/Drone Location Mismatch or Urgent Mission finding, and
\* get_all_conflicts() returns a list on every table; only the status-based
\* detectors (On Leave, Unavailable, Maintenance with assignment) report it.
C19_DanglingAssignmentSkipped ==
    /\ Len(get_all_conflicts(pilots, drones, missions))
          <= Len(AllDetected(pilots, drones, missions))
    /\ response.op = "get_all_conflicts" =>
        /\ \A i \in 1..Len(pilots) :
             Dangling(pilots[i]) =>
                FindingsOf(response.result, "pilot_id", pilots[i].pilot_id)
                    \subseteq {"Pilot On Leave but Assigned",
                               "Pilot Unavailable but Assigned"}
        /\ \A i \in 1..Len(drones) :
             Dangling(drones[i]) =>
                FindingsOf(response.result, "drone_id", drones[i].drone_id)
                    \subseteq {"Maintenance Conflict"}

\* The list was returned for tables where an Assigned pilot and a Deployed
\* drone point to a missing mission (nothing is reported for them) and a
\* pilot On Leave pointing to one is reported by the status rule.
C19_Witness ==
    /\ response.op = "get_all_conflicts"
    /\ \E i \in 1..Len(pilots) :
          /\ Dangling(pilots[i]) /\ pilots[i].status = "Assigned"
          /\ FindingsOf(response.result, "pilot_id", pilots[i].pilot_id) = {}
    /\ \E i \in 1..Len(pilots) :
          /\ Dangling(pilots[i])
          /\ FindingsOf(response.result, "pilot_id", pilots[i].pilot_id)
               = {"Pilot On Leave but Assigned"}
    /\ \E i \in 1..Len(drones) :
          /\ Dangling(drones[i]) /\ drones[i].status = "Deployed"
          /\ FindingsOf(response.result, "drone_id", drones[i].drone_id) = {}

---------------------------------------------------------------------------
(* All the operations that write, the automatic reassignment included.     *)

NextCore ==
    \/ Next
    \/ AutoReassignUrgentConflicts /\ UNCHANGED prev

SpecCore == Init /\ [][NextCore]_vars

\* The ids of the rows, in table order.
IdColumn(table, idcol) == [i \in 1..Len(table) |-> table[i][idcol]]

\* C20 as stated: after any sequence of the operations the pilot, drone and
\* mission ids and the mission table are unchanged, and no field of a pilot
\* or drone row other than status and current_assignment has changed.
C20_OnlyStatusAndAssignmentWritten ==
    [][/\ missions' = missions
       /\ IdColumn(pilots', "pilot_id") = IdColumn(pilots, "pilot_id")
       /\ IdColumn(drones', "drone_id") = IdColumn(drones, "drone_id")
       /\ \A i \in 1..Len(pilots) :
            pilots'[i] = [pilots[i] EXCEPT
                             !.status = pilots'[i].status,
                             !.current_assignment = pilots'[i].current_assignment]
       /\ \A i \in 1..Len(drones) :
            drones'[i] = [drones[i] EXCEPT
                             !.status = drones'[i].status,
                             !.current_assignment = drones'[i].current_assignment]
      ]_vars

\* C20, amended: the ids and the mission table are unchanged, no field of a
\* drone row other than status and current_assignment changes, and no field of
\* a pilot row other than status, current_assignment and available_from (which
\* mark_pilot_on_leave writes) changes.
C20_OnlyStatusAssignmentAndDateWritten ==
    [][/\ missions' = missions
       /\ IdColumn(pilots', "pilot_id") = IdColumn(pilots, "pilot_id")
       /\ IdColumn(drones', "drone_id") = IdColumn(drones, "drone_id")
       /\ \A i \in 1..Len(pilots) :
            pilots'[i] = [pilots[i] EXCEPT
                             !.status = pilots'[i].status,
                             !.current_assignment = pilots'[i].current_assignment,
                             !.available_from = pilots'[i].available_from]
       /\ \A i \in 1..Len(drones) :
            drones'[i] = [drones[i] EXCEPT
                             !.status = drones'[i].status,
                             !.current_assignment = drones'[i].current_assignment]
      ]_vars

\* A batch has reassigned a mission after a mark_pilot_on_leave wrote a date,
\* and a drone has been deployed.
C20_Witness ==
    /\ BatchReturned
    /\ \E i \in 1..Len(response.result) : response.result[i].status = "SUCCESS"
    /\ \E i \in 1..Len(pilots) : pilots[i].available_from \in LeaveDates
    /\ \E i \in 1..Len(drones) : drones[i].status = "Deployed"

---------------------------------------------------------------------------
(* Further properties of the ranking, of the summary and of the            *)
(* automatic reassignment.                                                 *)

\* Twice the score of a row for the requirements of the call that returned:
\* skill_match * 2 + cert_match * 1.5 + 0.5 if the location matches.
RankScoreX2(row) ==
    4 * Cardinality(PieceSet(response.required_skills) \cap PieceSet(row.skills))
    + 3 * Cardinality(PieceSet(response.required_certs)
                      \cap PieceSet(row.certifications))
    + (IF row.location = response.location THEN 1 ELSE 0)

\* The position in the pilot table of the k-th pilot returned.
RankedRowIndex(k) == MinOf(RowsWith(pilots, "pilot_id", response.result[k].pilot_id))

PositionsOfSeverity(list, sev) ==
    Cardinality({k \in 1..Len(list) : list[k].severity = sev})

\* C22: get_conflicts_summary reports as total_conflicts the length of the
\* deduplicated list of get_all_conflicts, and as critical, high and medium
\* the numbers of findings of that list with that severity.
C22_SummaryCountsDeduplicatedList ==
    response.op = "get_conflicts_summary" =>
        LET list == get_all_conflicts(pilots, drones, missions)
        IN  /\ response.result.conflicts = list
            /\ response.result.total_conflicts = Len(list)
            /\ response.result.critical = PositionsOfSeverity(list, "CRITICAL")
            /\ response.result.high = PositionsOfSeverity(list, "HIGH")
            /\ response.result.medium = PositionsOfSeverity(list, "MEDIUM")
            /\ \A j, k \in 1..Len(list) : list[j].issue = list[k].issue => j = k

\* A summary of a list shortened by the deduplication, with findings of
\* every severity.
C22_Witness ==
    /\ response.op = "get_conflicts_summary"
    /\ response.result.total_conflicts < Len(AllDetected(pilots, drones, missions))
    /\ response.result.critical > 0
    /\ response.result.high > 0
    /\ response.result.medium > 0

\* The positions of the SUCCESS records of the batch that returned.
SuccessPositions ==
    {k \in 1..Len(response.result) : response.result[k].status = "SUCCESS"}

\* C23: within one batch at most one replacement is assigned per conflicting
\* (old pilot, mission) pair: the SUCCESS records of one batch that name the
\* same old pilot and the same mission name the same replacement.
C23_OneReplacementPerPilotAndMission ==
    response.op = "auto_reassign_urgent_conflicts" =>
        \A j, k \in SuccessPositions :
            /\ response.result[j].old_pilot = response.result[k].old_pilot
            /\ response.result[j].mission = response.result[k].mission
            => response.result[j].new_pilot_id = response.result[k].new_pilot_id

\* C24: the replacement chosen by auto_reassign_urgent_conflicts holds every
\* certification the mission requires, so a batch never introduces a
\* Certification Mismatch finding for a replacement pilot that was in no
\* conflict before the batch.
C24_ReplacementHoldsRequiredCerts ==
    [][response'.op = "auto_reassign_urgent_conflicts" =>
        \A k \in 1..Len(response'.result) :
            LET rec == response'.result[k]
            IN  /\ rec.status = "SUCCESS"
                /\ FindingsOf(get_all_conflicts(pilots, drones, missions),
                              "pilot_id", rec.new_pilot_id) = {}
                => FindingsOf(detect_certification_mismatch(pilots', missions'),
                              "pilot_id", rec.new_pilot_id) = {}]_vars

---------------------------------------------------------------------------
(* The operations of the coordinator from tables without a CRITICAL        *)
(* finding.                                                                *)

\* The <<status, current_assignment>> pairs of such a start: no pilot is On
\* Leave with an assignment (an Unavailable one may carry one) ...
SafePilotCells ==
    {<<"Available", Sentinel>>, <<"On Leave", Sentinel>>,
     <<"Unavailable", MissionIdOf[1]>>}

\* ... and no drone is in Maintenance with an assignment.
SafeDroneCells == {<<"Available", Sentinel>>, <<"Maintenance", Sentinel>>}

InitSafe ==
    /\ pilots \in PilotTablesOver(RosterNames, SafePilotCells)
    /\ drones \in DroneTablesOver(RosterModels, SafeDroneCells)
    /\ missions = MissionTable
    /\ response = NoResponse
    /\ prev = NoCall

SpecSafe == InitSafe /\ [][Next]_vars

\* C25: from tables in which no pilot is On Leave with an assignment and no
\* drone is in Maintenance with an assignment, every sequence of assign,
\* reassign, unassign, mark_pilot_on_leave, mark_pilot_available,
\* mark_drone_available and mark_drone_maintenance calls keeps
\* get_all_conflicts free of CRITICAL findings.
C25_NoCriticalFindingFromSafeStart ==
    PositionsOfSeverity(get_all_conflicts(pilots, drones, missions), "CRITICAL") = 0

\* A pilot booked on the Urgent mission has been marked On Leave while a
\* booked drone had been put in Maintenance.
C25_Witness ==
    /\ response.op = "mark_pilot_on_leave"
    /\ response.result.success
    /\ StatusOf(pilots, response.pilot_id) = "On Leave"
    /\ \E d \in DroneIds :
          /\ DroneStatusOf(drones, d) = "Maintenance"
          /\ DroneAssignmentOf(drones, d) = Sentinel
    /\ \E p \in PilotIds :
          /\ StatusOf(pilots, p) = "Assigned"
          /\ AssignmentOf(pilots, p) = MissionIdOf[1]

---------------------------------------------------------------------------
(* Batches called again and again.                                         *)

\* The loaded tables the batches start from: every pilot at the missions'
\* location, with any of the cells and certifications of AutoPilotTables.
ConvergePilotTables ==
    {ps \in AutoPilotTables : \A i \in 1..Len(ps) : ps[i].location = "Bangalore"}

InitConverge ==
    /\ pilots \in ConvergePilotTables
    /\ drones = AutoDrones
    /\ missions = SameSiteMissions
    /\ response = NoResponse
    /\ prev = NoCall

\* A call of the batch would change neither a table nor the value returned
\* last: no step <<NextAuto>>_vars is possible.
NoBatchStep ==
    LET out == auto_reassign_urgent_conflicts(pilots, drones, missions)
    IN  /\ out.pilots = pilots
        /\ response = [op |-> "auto_reassign_urgent_conflicts",
                       result |-> out.reassignments]

\* The batch is called as long as a call changes something: weak fairness of
\* NextAuto, with the enabling condition of the step written out.
SpecConverge ==
    /\ InitConverge /\ [][NextAuto]_vars
    /\ ([]<>NoBatchStep \/ []<><<NextAuto>>_vars)

\* The number of rows of a pilot table with status Available.
AvailableCount(ps) == Cardinality({i \in 1..Len(ps) : ps[i].status = "Available"})

\* The number of SUCCESS records of a list of records.
SuccessCount(records) ==
    Cardinality({k \in 1..Len(records) : records[k].status = "SUCCESS"})

\* A batch on the tables as they are returns no SUCCESS record and changes no
\* table.
Quiescent ==
    LET out == auto_reassign_urgent_conflicts(pilots, drones, missions)
    IN  SuccessCount(out.reassignments) = 0 /\ out.pilots = pilots

\* C26: repeated auto_reassign_urgent_conflicts calls converge: a batch lowers
\* the number of Available pilots by at least one per SUCCESS record (and
\* never raises it), a batch without SUCCESS record changes no table, and
\* from some batch on the batches return no SUCCESS record and change nothing.
C26_BatchesConverge ==
    /\ [][response'.op = "auto_reassign_urgent_conflicts" =>
            /\ AvailableCount(pilots') + SuccessCount(response'.result)
                   <= AvailableCount(pilots)
            /\ SuccessCount(response'.result) = 0 =>
                   <<pilots', drones', missions'>> = <<pilots, drones, missions>>]_vars
    /\ <>[]Quiescent

\* A batch has reassigned a mission and the next batch will find findings to
\* process, yet no replacement for any of them.
C26_Witness ==
    /\ response.op = "auto_reassign_urgent_conflicts"
    /\ SuccessPositions # {}
    /\ Len(auto_reassign_urgent_conflicts(pilots, drones, missions).reassignments) > 0
    /\ Quiescent

\* The issue strings of the findings of the tables as they are.
IssuesNow ==
    LET list == get_all_conflicts(pilots, drones, missions)
    IN  {list[k].issue : k \in 1..Len(list)}

\* C27: after a batch, get_all_conflicts on the resulting tables contains no
\* finding with the issue string of the 'conflict' field of a SUCCESS record.
C27_ReassignedFindingsAreGone ==
    response.op = "auto_reassign_urgent_conflicts" =>
        \A k \in SuccessPositions : response.result[k].conflict \notin IssuesNow

\* C28: in every SUCCESS record new_pilot_id differs from the pilot_id of the
\* finding, the id of the row named by old_pilot (the names of the rows
\* differ), whatever the loaded tables are: a pilot may be Available and yet
\* carry an assignment.
C28_ReplacementIsAnotherPilot ==
    response.op = "auto_reassign_urgent_conflicts" =>
        \A k \in SuccessPositions : \A i \in 1..Len(pilots) :
            pilots[i].name = response.result[k].old_pilot
            => pilots[i].pilot_id # response.result[k].new_pilot_id

\* C29: for an Available pilot p without assignment and an existing mission,
\* assign_pilot_to_mission(p, m) followed by unassign_pilot(p) restores the
\* status and the current_assignment of p (Available and the sentinel), and a
\* further assign_pilot_to_mission of p to an existing mission succeeds.
C29_AssignUnassignRoundTrip ==
    [][\A p \in PilotIds :
         /\ (/\ response.op = "assign_pilot_to_mission"
             /\ response.pilot_id = p /\ response.result.success
             /\ response'.op = "unassign_pilot" /\ response'.pilot_id = p)
            => /\ response'.result.success
               /\ StatusOf(pilots', p) = "Available"
               /\ AssignmentOf(pilots', p) = Sentinel
         /\ (/\ prev.op = "assign_pilot_to_mission"
             /\ prev.pilot_id = p /\ prev.result.success
             /\ response.op = "unassign_pilot" /\ response.pilot_id = p
             /\ response'.op = "assign_pilot_to_mission" /\ response'.pilot_id = p)
            => /\ response'.result.success
               /\ StatusOf(pilots', p) = "Assigned"
               /\ AssignmentOf(pilots', p) = response'.project_id
      ]_vars

\* A pilot has been assigned again right after the unassign_pilot call that
\* freed it.
C29_Witness ==
    /\ prev.op = "unassign_pilot" /\ prev.result.success
    /\ response.op = "assign_pilot_to_mission" /\ response.result.success
    /\ prev.pilot_id = response.pilot_id
    /\ StatusOf(pilots, response.pilot_id) = "Assigned"
    /\ AssignmentOf(pilots, response.pilot_id) = response.project_id

---------------------------------------------------------------------------
(* The 'Update Pilot Status' form of the roster page.                      *)

\* The options of the 'New Status' select box.
FormStatuses == {"Available", "On Leave", "Assigned", "Unavailable"}

\* The handler of the form's button for the selected pilot and status (with
\* the mission or the date asked for by that status): the pilot table after
\* it and the result shown.  On success it also saves the table, which
\* changes no row.
update_pilot_status_form(ps, ms, pilot_id, new_status, selected_mission, available_from) ==
    IF new_status = "Assigned"
    THEN assign_pilot_to_mission(ps, ms, pilot_id, selected_mission)
    ELSE IF new_status = "On Leave"
    THEN mark_pilot_on_leave(ps, pilot_id, available_from)
    ELSE mark_pilot_available(ps, pilot_id)

UpdatePilotStatusForm(pilot_id, new_status, selected_mission, available_from) ==
    LET out == update_pilot_status_form(pilots, missions, pilot_id, new_status,
                                        selected_mission, available_from)
    IN  /\ pilots' = out.pilots
        /\ response' = [op |-> "update_pilot_status_form", pilot_id |-> pilot_id,
                        new_status |-> new_status, result |-> out.result]
        /\ UNCHANGED <<drones, missions>>

\* The form offers the pilots and the missions of the tables.
NextForm ==
    \E p \in PilotIds, s \in FormStatuses, m \in MissionIds, d \in LeaveDates :
        UpdatePilotStatusForm(p, s, m, d) /\ UNCHANGED prev

SpecForm == InitSeq /\ [][NextForm]_vars

\* C30: confirming a new status S among Available, On Leave and Unavailable
\* for an existing pilot in the 'Update Pilot Status' form leaves that pilot
\* with status S.
C30_FormSetsSelectedStatus ==
    /\ response.op = "update_pilot_status_form"
    /\ response.new_status \in {"Available", "On Leave", "Unavailable"}
    => StatusOf(pilots, response.pilot_id) = response.new_status

===========================================================================
